---- MODULE Spec2Model ----
(***************************************************************************)
(* Model of keras_ssd300.py: the function ssd_300, which validates its     *)
(* configuration, builds the SSD300 network as a graph of symbolic tensors *)
(* (only their shapes are known at construction time) and returns the      *)
(* model with the six classifier grid sizes.  One action per block of the  *)
(* function body; pc is the position of control inside ssd_300.            *)
(*                                                                         *)
(* Numbers.  Scaling factors are held as integers in units of 1/60, aspect *)
(* ratios in units of 1/6 and variances in units of 1/10, so that every    *)
(* value the model needs (1/3, 0.5, the seven points of np.linspace        *)
(* between two multiples of 0.1) is an exact integer.  Only order and sign *)
(* of these values matter to the code modelled here.                       *)
(***************************************************************************)
EXTENDS Integers, Sequences, FiniteSets, TLC

VARIABLES
    cfg,               \* the arguments ssd_300 was called with
    pc,                \* position of control in ssd_300
    err,               \* the exception that ended the call, if any
    aspect_ratios,     \* aspect_ratios_conv4_3 .. aspect_ratios_conv9_2
    n_boxes,           \* n_boxes_conv4_3 .. n_boxes_conv9_2
    scales,            \* the local `scales` (rebound by np.linspace)
    variances,         \* the local `variances`
    n_built,           \* number of Keras layers called so far
    feat,              \* (h, w) of conv4_3_norm, fc7, conv6_2 .. conv9_2
    conf_layers,       \* shapes of the six *_mbox_conf tensors
    loc_layers,        \* shapes of the six *_mbox_loc tensors
    priorbox_layers,   \* shapes of the six *_mbox_priorbox tensors
    anchor_args,       \* the arguments of the AnchorBoxes calls made so far
    conf_reshape,      \* shapes of the six *_mbox_conf_reshape tensors
    loc_reshape,       \* shapes of the six *_mbox_loc_reshape tensors
    priorbox_reshape,  \* shapes of the six *_mbox_priorbox_reshape tensors
    mbox_conf,         \* shape of mbox_conf (batch axis left out)
    mbox_loc,          \* shape of mbox_loc
    mbox_priorbox,     \* shape of mbox_priorbox
    predictions,       \* shape of predictions
    classifier_sizes,  \* the second value ssd_300 returns
    returned,          \* TRUE once ssd_300 has returned (model, classifier_sizes)
    out_conf,          \* forward pass: value of mbox_conf, row-major
    out_loc,           \* forward pass: value of mbox_loc, row-major
    out_priorbox,      \* forward pass: value of mbox_priorbox, row-major
    out_predictions    \* forward pass: value of predictions, row-major

vars == <<cfg, pc, err, aspect_ratios, n_boxes, scales, variances, n_built,
          feat, conf_layers, loc_layers, priorbox_layers, anchor_args,
          conf_reshape, loc_reshape, priorbox_reshape, mbox_conf, mbox_loc, mbox_priorbox,
          predictions, classifier_sizes, returned, out_conf, out_loc,
          out_priorbox, out_predictions>>

netvars == <<feat, conf_layers, loc_layers, priorbox_layers, anchor_args,
             conf_reshape, loc_reshape, priorbox_reshape, mbox_conf, mbox_loc,
             mbox_priorbox, predictions, classifier_sizes, returned>>

outvars == <<out_conf, out_loc, out_priorbox, out_predictions>>

----------------------------------------------------------------------------
(* Bounds of the model.                                                    *)

\* longest aspect-ratio list drawn for aspect_ratios_global and for the
\* varying entries of aspect_ratios_per_layer
MaxArLen == 2

----------------------------------------------------------------------------
(* Python values.                                                          *)

\* an optional list argument: None, or a list
None == [some |-> FALSE, val |-> <<>>]

Some(l) == [some |-> TRUE, val |-> l]

\* an optional number argument: None, or a number
NoneNum == [some |-> FALSE, val |-> 0]

SomeNum(x) == [some |-> TRUE, val |-> x]

\* `x is None`
IsNone(x) == ~x.some

\* `if x:` for a list-or-None: None and the empty list are both false
Truthy(x) == x.some /\ Len(x.val) > 0

\* `v in l`
In(v, l) == \E j \in 1..Len(l) : l[j] = v

RECURSIVE SumSeq(_)
SumSeq(s) == IF s = <<>> THEN 0 ELSE Head(s) + SumSeq(Tail(s))

RECURSIVE ProdSeq(_)
ProdSeq(s) == IF s = <<>> THEN 1 ELSE Head(s) * ProdSeq(Tail(s))

----------------------------------------------------------------------------
(* Constants of the program.                                               *)

n_classifier_layers == 6

Layers == 1..n_classifier_layers

\* the literal 1 of `1 in aspect_ratios`, in units of 1/6
ArOne == 6

\* the default of aspect_ratios_per_layer
DefaultAspectRatiosPerLayer ==
    << <<3, 6, 12>>,
       <<2, 3, 6, 12, 18>>,
       <<2, 3, 6, 12, 18>>,
       <<2, 3, 6, 12, 18>>,
       <<3, 6, 12>>,
       <<3, 6, 12>> >>

\* the defaults min_scale=0.1, max_scale=0.9 in units of 1/60
DefaultMinScale == 6

DefaultMaxScale == 54

\* the default variances [0.1, 0.1, 0.2, 0.2] in units of 1/10
DefaultVariances == <<1, 1, 2, 2>>

NoErr == [kind |-> "none", line |-> 0]

\* an exception raised at a source line
Raise(kind, line) == [kind |-> kind, line |-> line]

----------------------------------------------------------------------------
(* The configurations ssd_300 is called with.                              *)

\* aspect ratios 1.0 and 2.0, in units of 1/6
ArValues == {6, 12}

\* every list of at most MaxArLen aspect ratios, the empty list included
ArLists == UNION {[1..n -> ArValues] : n \in 0..MaxArLen}

\* a per-layer list of n entries: the odd entries are a, the even ones b
PerLayerList(n, a, b) == [i \in 1..n |-> IF i % 2 = 1 THEN a ELSE b]

AspectRatiosGlobalChoices == {None} \cup {Some(l) : l \in ArLists}

AspectRatiosPerLayerChoices ==
    {None, Some(<<>>), Some(DefaultAspectRatiosPerLayer)}
    \cup {Some(PerLayerList(n, <<6>>, <<6, 12>>)) :
            n \in {n_classifier_layers - 1, n_classifier_layers + 1}}
    \cup {Some(PerLayerList(n_classifier_layers, a, <<6, 12>>)) : a \in ArLists}
    \cup {Some(PerLayerList(n_classifier_layers, <<12>>, a)) : a \in ArLists}

\* an explicit scales list of n entries, increasing in steps of 0.1, with
\* the value v put at position z (z = 0: nowhere)
ScaleList(n, z, v) == [i \in 1..n |-> IF i = z THEN v ELSE 6 * i]

ScalesChoices ==
    {None, Some(<<>>)}
    \cup {Some(ScaleList(n, 0, 0)) :
            n \in n_classifier_layers..(n_classifier_layers + 2)}
    \cup {Some(ScaleList(n_classifier_layers + 1, z, v)) :
            z \in {1, n_classifier_layers + 1}, v \in {0, -6}}
    \cup {Some(ScaleList(n_classifier_layers + 1, 2, 60))}

MinScaleChoices == {NoneNum, SomeNum(0), SomeNum(6), SomeNum(54)}

MaxScaleChoices == {NoneNum, SomeNum(6), SomeNum(54)}

\* the variances lists: the default, shortened or extended, and the default
\* with one entry replaced by 0 or by a negative value
VariancesChoices ==
    {DefaultVariances, <<1, 1, 2>>, <<1, 1, 2, 2, 2>>, <<>>}
    \cup {[DefaultVariances EXCEPT ![j] = v] : j \in {1, 4}, v \in {0, -1}}

\* (height, width, channels); 256 is too small for conv9_2 and 128 for
\* conv8_2
ImageSizeChoices ==
    {<<300, 300, 3>>, <<257, 300, 3>>, <<300, 256, 3>>, <<128, 300, 3>>}

NClassesChoices == {2, 21}

\* the four groups of arguments
ArGroups ==
    {[g |-> g, p |-> p, two |-> two] :
        g \in AspectRatiosGlobalChoices,
        p \in AspectRatiosPerLayerChoices,
        two \in BOOLEAN}

ScaleGroups ==
    {[mn |-> SomeNum(DefaultMinScale), mx |-> SomeNum(DefaultMaxScale), sc |-> sc] :
        sc \in ScalesChoices}
    \cup {[mn |-> mn, mx |-> mx, sc |-> sc] :
        mn \in MinScaleChoices, mx \in MaxScaleChoices,
        sc \in {None, Some(<<>>)}}

ImageGroups ==
    {[image_size |-> s, n_classes |-> n] :
        s \in ImageSizeChoices, n \in NClassesChoices}

DefaultArGroup ==
    [g |-> None, p |-> Some(DefaultAspectRatiosPerLayer), two |-> TRUE]

DefaultScaleGroup ==
    [mn |-> SomeNum(DefaultMinScale), mx |-> SomeNum(DefaultMaxScale), sc |-> None]

DefaultImageGroup == [image_size |-> <<300, 300, 3>>, n_classes |-> 21]

\* the arguments of one call
Config(ar, sg, v, im) ==
    [image_size              |-> im.image_size,
     n_classes               |-> im.n_classes,
     min_scale               |-> sg.mn,
     max_scale               |-> sg.mx,
     scales                  |-> sg.sc,
     aspect_ratios_global    |-> ar.g,
     aspect_ratios_per_layer |-> ar.p,
     two_boxes_for_ar1       |-> ar.two,
     variances               |-> v]

\* the calls explored: every pair of argument groups takes all of its
\* combinations while the other two groups keep their default values
Configs ==
    {Config(ar, sg, DefaultVariances, DefaultImageGroup) :
        ar \in ArGroups, sg \in ScaleGroups}
    \cup {Config(ar, DefaultScaleGroup, v, DefaultImageGroup) :
        ar \in ArGroups, v \in VariancesChoices}
    \cup {Config(ar, DefaultScaleGroup, DefaultVariances, im) :
        ar \in ArGroups, im \in ImageGroups}
    \cup {Config(DefaultArGroup, sg, v, DefaultImageGroup) :
        sg \in ScaleGroups, v \in VariancesChoices}
    \cup {Config(DefaultArGroup, sg, DefaultVariances, im) :
        sg \in ScaleGroups, im \in ImageGroups}
    \cup {Config(DefaultArGroup, DefaultScaleGroup, v, im) :
        v \in VariancesChoices, im \in ImageGroups}

----------------------------------------------------------------------------
(* Validation and resolution of the arguments (lines 94-157).              *)

\* line 96 with `is not None` written for the second test
BothAbsent_NotNone(g, p) == IsNone(g) /\ ~IsNone(p)

\* line 96
BothAbsent(g, p) == IsNone(g) /\ IsNone(p)

\* lines 98-99
PerLayerLenBad(p) == Truthy(p) /\ Len(p.val) # n_classifier_layers

\* lines 103-116 with the override reversed: a global list, when passed,
\* is taken for every layer
ResolveAspectRatios_GlobalFirst(g, p) ==
    IF ~IsNone(g) THEN [i \in Layers |-> g.val]
                  ELSE [i \in Layers |-> p.val[i]]

\* lines 103-116: the aspect ratios of each classifier layer (g is a list
\* here: the caller has ruled out the case where it is None)
ResolveAspectRatios(g, p) ==
    IF Truthy(p) THEN [i \in Layers |-> p.val[i]]
                 ELSE [i \in Layers |-> g.val]

\* lines 122-125 without the second box for aspect ratio 1
BoxesPerCell_NoExtra(ar, two) == Len(ar)

\* lines 122-125 and 133-136
BoxesPerCell(ar, two) ==
    IF In(ArOne, ar) /\ two THEN Len(ar) + 1 ELSE Len(ar)

\* lines 119-142: the number of boxes per cell of each classifier layer
NBoxes(g, p, two) ==
    IF Truthy(p) THEN [i \in Layers |-> BoxesPerCell(p.val[i], two)]
                 ELSE [i \in Layers |-> BoxesPerCell(g.val, two)]

\* line 145
NoScaleSource(mn, mx, sc) == (IsNone(mn) \/ IsNone(mx)) /\ IsNone(sc)

\* lines 147-148
ScalesLenBad(sc) == Truthy(sc) /\ Len(sc.val) # n_classifier_layers + 1

\* np.linspace called with one point too few
Linspace_OffByOne(start, stop, num) ==
    [i \in 1..(num - 1) |-> start + ((i - 1) * (stop - start)) \div (num - 2)]

\* np.linspace(start, stop, num): num evenly spaced points, both ends
\* included (exact for the values drawn: stop - start is a multiple of 6)
Linspace(start, stop, num) ==
    [i \in 1..num |-> start + ((i - 1) * (stop - start)) \div (num - 1)]

\* line 153
VariancesLenBad(v) == Len(v) # 4

\* line 156 with `<` for `<=`
AnyNonPositive_Strict(v) == \E j \in 1..Len(v) : v[j] < 0

\* line 156: np.any(variances <= 0)
AnyNonPositive(v) == \E j \in 1..Len(v) : v[j] <= 0

\* the state when ssd_300 is entered with one of the calls of C
InitWith(C) ==
    /\ cfg \in C
    /\ pc = "check_aspect_ratios"
    /\ err = NoErr
    /\ aspect_ratios = <<>>
    /\ n_boxes = <<>>
    /\ scales = cfg.scales
    /\ variances = cfg.variances
    /\ n_built = 0
    /\ feat = <<>>
    /\ conf_layers = <<>>
    /\ loc_layers = <<>>
    /\ priorbox_layers = <<>>
    /\ anchor_args = <<>>
    /\ conf_reshape = <<>>
    /\ loc_reshape = <<>>
    /\ priorbox_reshape = <<>>
    /\ mbox_conf = <<>>
    /\ mbox_loc = <<>>
    /\ mbox_priorbox = <<>>
    /\ predictions = <<>>
    /\ classifier_sizes = <<>>
    /\ returned = FALSE
    /\ out_conf = <<>>
    /\ out_loc = <<>>
    /\ out_priorbox = <<>>
    /\ out_predictions = <<>>

Init == InitWith(Configs)

\* lines 96-100
CheckAspectRatios ==
    /\ pc = "check_aspect_ratios"
    /\ IF BothAbsent(cfg.aspect_ratios_global, cfg.aspect_ratios_per_layer)
         THEN pc' = "error" /\ err' = Raise("ValueError", 97)
         ELSE IF PerLayerLenBad(cfg.aspect_ratios_per_layer)
                THEN pc' = "error" /\ err' = Raise("ValueError", 100)
                ELSE pc' = "resolve_aspect_ratios" /\ err' = err
    /\ UNCHANGED <<cfg, aspect_ratios, n_boxes, scales, variances, n_built>>
    /\ UNCHANGED netvars
    /\ UNCHANGED outvars

\* lines 102-142; with aspect_ratios_per_layer false and aspect_ratios_global
\* None, `1 in aspect_ratios_global` (line 133) raises TypeError
ResolveLayers ==
    /\ pc = "resolve_aspect_ratios"
    /\ IF ~Truthy(cfg.aspect_ratios_per_layer) /\ IsNone(cfg.aspect_ratios_global)
         THEN /\ pc' = "error"
              /\ err' = Raise("TypeError", 133)
              /\ UNCHANGED <<aspect_ratios, n_boxes>>
         ELSE /\ pc' = "check_scales"
              /\ err' = err
              /\ aspect_ratios' = ResolveAspectRatios(cfg.aspect_ratios_global,
                                                      cfg.aspect_ratios_per_layer)
              /\ n_boxes' = NBoxes(cfg.aspect_ratios_global,
                                   cfg.aspect_ratios_per_layer,
                                   cfg.two_boxes_for_ar1)
    /\ UNCHANGED <<cfg, scales, variances, n_built>>
    /\ UNCHANGED netvars
    /\ UNCHANGED outvars

\* lines 144-151; np.linspace on a None end point raises TypeError
CheckScales ==
    /\ pc = "check_scales"
    /\ IF NoScaleSource(cfg.min_scale, cfg.max_scale, scales)
         THEN pc' = "error" /\ err' = Raise("ValueError", 146) /\ scales' = scales
         ELSE IF Truthy(scales)
           THEN IF ScalesLenBad(scales)
                  THEN pc' = "error" /\ err' = Raise("ValueError", 149) /\ scales' = scales
                  ELSE pc' = "check_variances" /\ err' = err /\ scales' = scales
           ELSE IF IsNone(cfg.min_scale) \/ IsNone(cfg.max_scale)
                  THEN pc' = "error" /\ err' = Raise("TypeError", 151) /\ scales' = scales
                  ELSE /\ pc' = "check_variances"
                       /\ err' = err
                       /\ scales' = Some(Linspace(cfg.min_scale.val, cfg.max_scale.val,
                                                  n_classifier_layers + 1))
    /\ UNCHANGED <<cfg, aspect_ratios, n_boxes, variances, n_built>>
    /\ UNCHANGED netvars
    /\ UNCHANGED outvars

\* lines 153-157
CheckVariances ==
    /\ pc = "check_variances"
    /\ IF VariancesLenBad(variances)
         THEN pc' = "error" /\ err' = Raise("ValueError", 154)
         ELSE IF AnyNonPositive(variances)
                THEN pc' = "error" /\ err' = Raise("ValueError", 157)
                ELSE pc' = "build_backbone" /\ err' = err
    /\ UNCHANGED <<cfg, aspect_ratios, n_boxes, scales, variances, n_built>>
    /\ UNCHANGED netvars
    /\ UNCHANGED outvars

----------------------------------------------------------------------------
(* Construction of the network (lines 159-322): shapes of the tensors.     *)

\* Keras output length of a convolution or pooling with padding='same'
ConvSame(n, stride) == (n + stride - 1) \div stride

\* Keras output length of a stride-1 convolution with padding='valid'
ConvValid(n, kernel) == n - kernel + 1

\* lines 169-206 along one image axis: the lengths of conv4_3, fc7, conv6_2,
\* conv7_2, conv8_2, conv9_2 (pool1..pool4, conv6_2, conv7_2 have stride 2)
GridSizes(n) ==
    LET conv4_3 == ConvSame(ConvSame(ConvSame(n, 2), 2), 2)
        fc7     == ConvSame(ConvSame(conv4_3, 2), 1)
        conv6_2 == ConvSame(fc7, 2)
        conv7_2 == ConvSame(conv6_2, 2)
        conv8_2 == ConvValid(conv7_2, 3)
        conv9_2 == ConvValid(conv8_2, 3)
    IN  <<conv4_3, fc7, conv6_2, conv7_2, conv8_2, conv9_2>>

\* a 3x3 'valid' convolution of a smaller input fails in the backend; the
\* first of conv8_2 (5), conv9_2 (6) to fail along this axis, 0 if none
FirstTooSmall(n) ==
    IF GridSizes(n)[4] < 3 THEN 5
    ELSE IF GridSizes(n)[5] < 3 THEN 6
    ELSE 0

\* Conv2D(filters, (3, 3), padding='same') on a feature map of size hw
Conv2DShape(hw, filters) == <<hw[1], hw[2], filters>>

\* lines 215-220: depth of the confidence layer of a classifier layer
ConfDepth(k, n_classes) == k * n_classes

\* lines 223-228: depth of the localization layer of a classifier layer
LocDepth(k) == k * 4

\* AnchorBoxes: the number of boxes generated per cell
AnchorsPerCell(ar, two) ==
    Len(ar) + (IF two /\ In(ArOne, ar) THEN 1 ELSE 0)

\* AnchorBoxes: the layer rejects an empty aspect-ratio list and every box
\* whose width or height is not positive (the second box for aspect ratio
\* 1 has side sqrt(this_scale * next_scale))
AnchorBoxesOk(this_scale, next_scale, ar, two) ==
    /\ Len(ar) > 0
    /\ this_scale > 0
    /\ (two /\ In(ArOne, ar)) => this_scale * next_scale > 0

\* AnchorBoxes: output shape (height, width, n_boxes, 8)
AnchorBoxesShape(hw, ar, two) == <<hw[1], hw[2], AnchorsPerCell(ar, two), 8>>

\* lines 233-244 with next_scale taken at the index of this_scale
AnchorBoxesArgs_SameIndex(i, sc, ars) ==
    [this_scale |-> sc[i], next_scale |-> sc[i], aspect_ratios |-> ars[i]]

\* lines 233-244: this_scale, next_scale and aspect_ratios passed to the
\* AnchorBoxes of classifier layer i (scales[0] is sc[1])
AnchorBoxesArgs(i, sc, ars) ==
    [this_scale |-> sc[i], next_scale |-> sc[i + 1], aspect_ratios |-> ars[i]]

\* lines 233-244: the first classifier layer whose AnchorBoxes fails, 0 if none
FirstAnchorFailure(sc, ars, two) ==
    LET bad == {i \in Layers :
                  LET a == AnchorBoxesArgs(i, sc, ars)
                  IN  ~AnchorBoxesOk(a.this_scale, a.next_scale,
                                     a.aspect_ratios, two)}
    IN  IF bad = {} THEN 0 ELSE CHOOSE i \in bad : \A j \in bad : i <= j

\* Reshape((-1, last)) is possible
ReshapeOk(shape, last) == last > 0 /\ ProdSeq(shape) % last = 0

\* Reshape((-1, last)): the output shape
ReshapeShape(shape, last) == <<ProdSeq(shape) \div last, last>>

\* Concatenate(axis=1) of six (boxes, depth) tensors is possible
ConcatAxis1Ok(shapes) == \A i \in Layers : shapes[i][2] = shapes[1][2]

\* Concatenate(axis=1) with the last classifier layer left out of the list
ConcatAxis1Shape_DropLast(shapes) ==
    <<SumSeq([i \in 1..(n_classifier_layers - 1) |-> shapes[i][1]]), shapes[1][2]>>

\* Concatenate(axis=1) of six (boxes, depth) tensors, in the order listed
ConcatAxis1Shape(shapes) ==
    <<SumSeq([i \in Layers |-> shapes[i][1]]), shapes[1][2]>>

\* Concatenate(axis=2) of (boxes, depth) tensors is possible
ConcatAxis2Ok(shapes) == \A i \in 1..Len(shapes) : shapes[i][1] = shapes[1][1]

\* Concatenate(axis=2) of (boxes, depth) tensors
ConcatAxis2Shape(shapes) ==
    <<shapes[1][1], SumSeq([i \in 1..Len(shapes) |-> shapes[i][2]])>>

\* lines 159-209: Input, lambda1, the VGG-16 base network with fc6 and fc7,
\* conv6_1 .. conv9_2 and conv4_3_norm
BuildBackbone ==
    /\ pc = "build_backbone"
    /\ LET h   == cfg.image_size[1]
           w   == cfg.image_size[2]
           bad == {FirstTooSmall(h), FirstTooSmall(w)} \ {0}
       IN  IF bad # {}
             THEN /\ pc' = "error"
                  /\ IF 5 \in bad
                       THEN err' = Raise("ShapeError", 203) /\ n_built' = 27
                       ELSE err' = Raise("ShapeError", 206) /\ n_built' = 29
                  /\ feat' = feat
             ELSE /\ pc' = "build_heads"
                  /\ err' = err
                  /\ n_built' = 31
                  /\ feat' = [i \in Layers |-> <<GridSizes(h)[i], GridSizes(w)[i]>>]
    /\ UNCHANGED <<cfg, aspect_ratios, n_boxes, scales, variances,
                   anchor_args>>
    /\ UNCHANGED <<conf_layers, loc_layers, priorbox_layers, conf_reshape,
                   loc_reshape, priorbox_reshape, mbox_conf, mbox_loc,
                   mbox_priorbox, predictions, classifier_sizes, returned>>
    /\ UNCHANGED outvars

\* lines 213-228
BuildHeads ==
    /\ pc = "build_heads"
    /\ pc' = "build_anchors"
    /\ conf_layers' = [i \in Layers |->
                         Conv2DShape(feat[i], ConfDepth(n_boxes[i], cfg.n_classes))]
    /\ loc_layers' = [i \in Layers |-> Conv2DShape(feat[i], LocDepth(n_boxes[i]))]
    /\ n_built' = n_built + 2 * n_classifier_layers
    /\ UNCHANGED <<cfg, err, aspect_ratios, n_boxes, scales, variances,
                   anchor_args>>
    /\ UNCHANGED <<feat, priorbox_layers, conf_reshape, loc_reshape,
                   priorbox_reshape, mbox_conf, mbox_loc, mbox_priorbox,
                   predictions, classifier_sizes, returned>>
    /\ UNCHANGED outvars

\* lines 230-244
BuildAnchors ==
    /\ pc = "build_anchors"
    /\ LET f == FirstAnchorFailure(scales.val, aspect_ratios, cfg.two_boxes_for_ar1)
       IN  IF f # 0
             THEN /\ pc' = "error"
                  /\ err' = Raise("ValueError", 233 + 2 * (f - 1))
                  /\ n_built' = n_built + (f - 1)
                  /\ priorbox_layers' = priorbox_layers
                  /\ anchor_args' =
                       [i \in 1..f |-> AnchorBoxesArgs(i, scales.val, aspect_ratios)]
             ELSE /\ pc' = "reshape"
                  /\ err' = err
                  /\ n_built' = n_built + n_classifier_layers
                  /\ anchor_args' =
                       [i \in Layers |-> AnchorBoxesArgs(i, scales.val, aspect_ratios)]
                  /\ priorbox_layers' =
                       [i \in Layers |->
                          AnchorBoxesShape(
                            feat[i],
                            AnchorBoxesArgs(i, scales.val, aspect_ratios).aspect_ratios,
                            cfg.two_boxes_for_ar1)]
    /\ UNCHANGED <<cfg, aspect_ratios, n_boxes, scales, variances>>
    /\ UNCHANGED <<feat, conf_layers, loc_layers, conf_reshape, loc_reshape,
                   priorbox_reshape, mbox_conf, mbox_loc, mbox_priorbox,
                   predictions, classifier_sizes, returned>>
    /\ UNCHANGED outvars

\* lines 246-270
ReshapeLayers ==
    /\ pc = "reshape"
    /\ IF \A i \in Layers : /\ ReshapeOk(conf_layers[i], cfg.n_classes)
                            /\ ReshapeOk(loc_layers[i], 4)
                            /\ ReshapeOk(priorbox_layers[i], 8)
         THEN /\ pc' = "concatenate"
              /\ err' = err
              /\ n_built' = n_built + 3 * n_classifier_layers
              /\ conf_reshape' =
                   [i \in Layers |-> ReshapeShape(conf_layers[i], cfg.n_classes)]
              /\ loc_reshape' = [i \in Layers |-> ReshapeShape(loc_layers[i], 4)]
              /\ priorbox_reshape' =
                   [i \in Layers |-> ReshapeShape(priorbox_layers[i], 8)]
         ELSE /\ pc' = "error"
              /\ err' = Raise("ShapeError", 250)
              /\ UNCHANGED <<n_built, conf_reshape, loc_reshape, priorbox_reshape>>
    /\ UNCHANGED <<cfg, aspect_ratios, n_boxes, scales, variances,
                   anchor_args>>
    /\ UNCHANGED <<feat, conf_layers, loc_layers, priorbox_layers, mbox_conf,
                   mbox_loc, mbox_priorbox, predictions, classifier_sizes,
                   returned>>
    /\ UNCHANGED outvars

\* lines 272-306; the softmax activation keeps the shape of mbox_conf
ConcatenateLayers ==
    /\ pc = "concatenate"
    /\ LET conf     == ConcatAxis1Shape(conf_reshape)
           loc      == ConcatAxis1Shape(loc_reshape)
           priorbox == ConcatAxis1Shape(priorbox_reshape)
       IN  IF /\ ConcatAxis1Ok(conf_reshape)
              /\ ConcatAxis1Ok(loc_reshape)
              /\ ConcatAxis1Ok(priorbox_reshape)
              /\ ConcatAxis2Ok(<<conf, loc, priorbox>>)
             THEN /\ pc' = "return"
                  /\ err' = err
                  /\ n_built' = n_built + 5
                  /\ mbox_conf' = conf
                  /\ mbox_loc' = loc
                  /\ mbox_priorbox' = priorbox
                  /\ predictions' = ConcatAxis2Shape(<<conf, loc, priorbox>>)
             ELSE /\ pc' = "error"
                  /\ err' = Raise("ShapeError", 306)
                  /\ UNCHANGED <<n_built, mbox_conf, mbox_loc, mbox_priorbox,
                                 predictions>>
    /\ UNCHANGED <<cfg, aspect_ratios, n_boxes, scales, variances,
                   anchor_args>>
    /\ UNCHANGED <<feat, conf_layers, loc_layers, priorbox_layers, conf_reshape,
                   loc_reshape, priorbox_reshape, classifier_sizes, returned>>
    /\ UNCHANGED outvars

\* lines 308-322: `_keras_shape[1:3]` of the six confidence layers
ReturnModel ==
    /\ pc = "return"
    /\ pc' = "done"
    /\ classifier_sizes' =
         [i \in Layers |-> <<conf_layers[i][1], conf_layers[i][2]>>]
    /\ returned' = TRUE
    /\ UNCHANGED <<cfg, err, aspect_ratios, n_boxes, scales, variances,
                   anchor_args, n_built>>
    /\ UNCHANGED <<feat, conf_layers, loc_layers, priorbox_layers, conf_reshape,
                   loc_reshape, priorbox_reshape, mbox_conf, mbox_loc,
                   mbox_priorbox, predictions>>
    /\ UNCHANGED outvars

Next ==
    \/ CheckAspectRatios
    \/ ResolveLayers
    \/ CheckScales
    \/ CheckVariances
    \/ BuildBackbone
    \/ BuildHeads
    \/ BuildAnchors
    \/ ReshapeLayers
    \/ ConcatenateLayers
    \/ ReturnModel

Spec == Init /\ [][Next]_vars

----------------------------------------------------------------------------
(* A forward pass of the returned model: values of the tensors.  The value *)
(* a layer computes at a position is a symbolic element naming the layer   *)
(* and the position (counted from 0).                                      *)

\* the output of a confidence or localization layer of classifier layer i:
\* element (r, c, ch) of a (height, width, depth) tensor
HeadTensor(kind, i, shape) ==
    [r \in 1..shape[1] |-> [c \in 1..shape[2] |-> [ch \in 1..shape[3] |->
        <<kind, i, r - 1, c - 1, ch - 1>>]]]

\* the output of AnchorBoxes of classifier layer i: element (r, c, b, j) of
\* a (height, width, n_boxes, 8) tensor is value j of box b of cell (r, c)
AnchorTensor(i, shape) ==
    [r \in 1..shape[1] |-> [c \in 1..shape[2] |-> [b \in 1..shape[3] |->
        [j \in 1..shape[4] |-> <<"anchor", i, r - 1, c - 1, b - 1, j - 1>>]]]]

\* the elements of a 3D tensor in row-major order (last axis fastest)
Flatten3(t, shape) ==
    [p \in 1..ProdSeq(shape) |->
        t[((p - 1) \div (shape[2] * shape[3])) + 1]
         [(((p - 1) \div shape[3]) % shape[2]) + 1]
         [((p - 1) % shape[3]) + 1]]

\* the elements of a 4D tensor in row-major order (last axis fastest)
Flatten4(t, shape) ==
    [p \in 1..ProdSeq(shape) |->
        t[((p - 1) \div (shape[2] * shape[3] * shape[4])) + 1]
         [(((p - 1) \div (shape[3] * shape[4])) % shape[2]) + 1]
         [(((p - 1) \div shape[4]) % shape[3]) + 1]
         [((p - 1) % shape[4]) + 1]]

\* Reshape((-1, last)): the row-major elements cut into rows of `last`
ReshapeValue(flat, n, last) ==
    [b \in 1..(n \div last) |-> [j \in 1..last |-> flat[(b - 1) * last + j]]]

\* Concatenate(axis=1) with fc7 listed before conv4_3
ConcatAxis1Value_Swapped(t) == t[2] \o t[1] \o t[3] \o t[4] \o t[5] \o t[6]

\* Concatenate(axis=1) of the six per-layer tensors, in the order listed
ConcatAxis1Value(t) == t[1] \o t[2] \o t[3] \o t[4] \o t[5] \o t[6]

\* Activation('softmax') on a (boxes, n_classes) tensor: the softmax is
\* taken over the last axis, so element j of a row is a function of the
\* whole row and of j
Softmax(t) ==
    [e \in 1..Len(t) |-> [j \in 1..Len(t[e]) |-> <<"softmax", t[e], j - 1>>]]

\* Concatenate(axis=2) with mbox_loc listed before mbox_conf_softmax
ConcatAxis2Value_LocFirst(a, b, c) ==
    [e \in 1..Len(a) |-> b[e] \o a[e] \o c[e]]

\* Concatenate(axis=2) of three (boxes, depth) tensors, in the order listed
ConcatAxis2Value(a, b, c) ==
    [e \in 1..Len(a) |-> a[e] \o b[e] \o c[e]]

\* the model is applied to an image: lines 246-306 evaluated on the outputs
\* of the classifier layers
Forward ==
    /\ pc = "done"
    /\ pc' = "predicted"
    /\ out_conf' = ConcatAxis1Value(
         [i \in Layers |->
            ReshapeValue(Flatten3(HeadTensor("conf", i, conf_layers[i]), conf_layers[i]),
                         ProdSeq(conf_layers[i]), cfg.n_classes)])
    /\ out_loc' = ConcatAxis1Value(
         [i \in Layers |->
            ReshapeValue(Flatten3(HeadTensor("loc", i, loc_layers[i]), loc_layers[i]),
                         ProdSeq(loc_layers[i]), 4)])
    /\ out_priorbox' = ConcatAxis1Value(
         [i \in Layers |->
            ReshapeValue(Flatten4(AnchorTensor(i, priorbox_layers[i]), priorbox_layers[i]),
                         ProdSeq(priorbox_layers[i]), 8)])
    /\ out_predictions' = ConcatAxis2Value(Softmax(out_conf'), out_loc', out_priorbox')
    /\ UNCHANGED <<cfg, err, aspect_ratios, n_boxes, scales, variances, n_built>>
    /\ UNCHANGED netvars

\* the calls followed through a forward pass
FwdArGroups ==
    {[g |-> g, p |-> p, two |-> two] :
        g \in {None, Some(<<6>>), Some(<<12, 6>>)},
        p \in {None, Some(<<>>),
               Some(PerLayerList(n_classifier_layers, <<6>>, <<6, 12>>)),
               Some(PerLayerList(n_classifier_layers, <<12>>, <<>>)),
               Some(PerLayerList(n_classifier_layers - 1, <<6>>, <<6, 12>>))},
        two \in BOOLEAN}

FwdImageGroups ==
    {[image_size |-> s, n_classes |-> n] :
        s \in {<<257, 257, 3>>, <<257, 300, 3>>, <<300, 257, 3>>, <<256, 257, 3>>},
        n \in {2, 3}}

FwdDefaultArGroup == [g |-> Some(<<12, 6>>), p |-> None, two |-> TRUE]

FwdDefaultImageGroup == [image_size |-> <<257, 257, 3>>, n_classes |-> 2]

FwdConfigs ==
    {Config(ar, DefaultScaleGroup, DefaultVariances, FwdDefaultImageGroup) :
        ar \in FwdArGroups}
    \cup {Config(FwdDefaultArGroup, DefaultScaleGroup, DefaultVariances, im) :
        im \in FwdImageGroups}
    \cup {Config(FwdDefaultArGroup, sg, v, FwdDefaultImageGroup) :
        sg \in {DefaultScaleGroup,
                [mn |-> NoneNum, mx |-> NoneNum, sc |-> None],
                [mn |-> NoneNum, mx |-> NoneNum,
                 sc |-> Some(ScaleList(n_classifier_layers + 1, 0, 0))]},
        v \in {DefaultVariances, <<1, 1, 2>>}}

InitFwd == InitWith(FwdConfigs)

NextFwd ==
    \/ CheckAspectRatios
    \/ ResolveLayers
    \/ CheckScales
    \/ CheckVariances
    \/ BuildBackbone
    \/ BuildHeads
    \/ BuildAnchors
    \/ ReshapeLayers
    \/ ConcatenateLayers
    \/ ReturnModel
    \/ Forward

SpecFwd == InitFwd /\ [][NextFwd]_vars

----------------------------------------------------------------------------
(* Properties.                                                             *)

\* the positions of control before the network is constructed
ValidationPcs ==
    {"check_aspect_ratios", "resolve_aspect_ratios", "check_scales",
     "check_variances"}

\* the scales block (lines 144-151) has completed without raising
PassedScales ==
    \/ pc \notin ValidationPcs \cup {"error"}
    \/ pc = "check_variances"
    \/ pc = "error" /\ err.line > 151

\* sum over the six layers of k_i * h_i * w_i, from what ssd_300 returns
TotalBoxes ==
    SumSeq([i \in Layers |->
              n_boxes[i] * classifier_sizes[i][1] * classifier_sizes[i][2]])

\* the call of the end-to-end scenario: a 300x300x3 image, the default
\* per-layer aspect ratios, two boxes for aspect ratio 1
IsSsd300Default ==
    /\ cfg.image_size = <<300, 300, 3>>
    /\ cfg.aspect_ratios_per_layer = Some(DefaultAspectRatiosPerLayer)
    /\ cfg.two_boxes_for_ar1

\* C1: in every returned model the box axis of mbox_conf, mbox_loc,
\* mbox_priorbox and predictions has length sum_i k_i * h_i * w_i, with
\* (h_i, w_i) the i-th entry of classifier_sizes; for the 300x300x3 image
\* with the default aspect ratios and two_boxes_for_ar1 this is 8732.
C1_TotalBoxes ==
    returned =>
        /\ mbox_conf[1] = TotalBoxes
        /\ mbox_loc[1] = TotalBoxes
        /\ mbox_priorbox[1] = TotalBoxes
        /\ predictions[1] = TotalBoxes
        /\ IsSsd300Default => predictions[1] = 8732

C1_Witness ==
    /\ returned
    /\ IsSsd300Default
    /\ classifier_sizes = << <<38, 38>>, <<19, 19>>, <<10, 10>>, <<5, 5>>,
                             <<3, 3>>, <<1, 1>> >>
    /\ n_boxes = <<4, 6, 6, 6, 4, 4>>

\* number of boxes of the layers before layer i
LayerOffset(i) ==
    SumSeq([j \in 1..(i - 1) |->
              n_boxes[j] * classifier_sizes[j][1] * classifier_sizes[j][2]])

\* C2: after a forward pass, the entry of mbox_conf, mbox_loc and
\* mbox_priorbox at box index offset_i + (r * w_i + c) * k_i + b holds the
\* class scores, the offsets and the anchor of layer i, row r, column c,
\* box b, the layers being in the order conv4_3, fc7, conv6_2 .. conv9_2.
C2_BoxOrder ==
    pc = "predicted" =>
        /\ Len(out_conf) = TotalBoxes
        /\ Len(out_loc) = TotalBoxes
        /\ Len(out_priorbox) = TotalBoxes
        /\ \A i \in Layers :
             LET off == LayerOffset(i)
                 w   == classifier_sizes[i][2]
                 k   == n_boxes[i]
                 n   == cfg.n_classes
             IN  \A r \in 0..(classifier_sizes[i][1] - 1), c \in 0..(w - 1),
                    b \in 0..(k - 1) :
                   LET e == off + (r * w + c) * k + b + 1
                   IN  /\ \A j \in 0..(n - 1) :
                            out_conf[e][j + 1] = <<"conf", i, r, c, b * n + j>>
                       /\ \A j \in 0..3 :
                            out_loc[e][j + 1] = <<"loc", i, r, c, b * 4 + j>>
                       /\ \A j \in 0..7 :
                            out_priorbox[e][j + 1] = <<"anchor", i, r, c, b, j>>

C2_Witness ==
    /\ pc = "predicted"
    /\ cfg.image_size[1] # cfg.image_size[2]
    /\ n_boxes[1] = 3
    /\ out_conf[LayerOffset(2) + (1 * classifier_sizes[2][2] + 2) * 3 + 1 + 1][2]
         = <<"conf", 2, 1, 2, 1 * cfg.n_classes + 1>>

\* len(aspect_ratios_i), plus 1 for the second box for aspect ratio 1
ExpectedBoxes(i) ==
    IF In(ArOne, aspect_ratios[i]) /\ cfg.two_boxes_for_ar1
      THEN Len(aspect_ratios[i]) + 1
      ELSE Len(aspect_ratios[i])

\* C3: in both modes, the per-cell anchor count of layer i that sizes the
\* prediction heads is len(aspect_ratios_i) + 1 if 1.0 is in the resolved
\* list and two_boxes_for_ar1 is set, and len(aspect_ratios_i) otherwise.
C3_AnchorCount ==
    /\ n_boxes # <<>> => \A i \in Layers : n_boxes[i] = ExpectedBoxes(i)
    /\ conf_layers # <<>> =>
         \A i \in Layers :
            /\ conf_layers[i][3] = ExpectedBoxes(i) * cfg.n_classes
            /\ loc_layers[i][3] = ExpectedBoxes(i) * 4

C3_Witness ==
    /\ conf_layers # <<>>
    /\ cfg.two_boxes_for_ar1
    /\ ~In(ArOne, aspect_ratios[1])
    /\ In(ArOne, aspect_ratios[2])
    /\ conf_layers[1][3] = Len(aspect_ratios[1]) * cfg.n_classes
    /\ conf_layers[2][3] = (Len(aspect_ratios[2]) + 1) * cfg.n_classes
    /\ loc_layers[2][3] = (Len(aspect_ratios[2]) + 1) * 4

\* both aspect-ratio arguments are None
BothNone ==
    ~cfg.aspect_ratios_global.some /\ ~cfg.aspect_ratios_per_layer.some

\* C4: with aspect_ratios_global and aspect_ratios_per_layer both None the
\* call ends in the configuration error of line 97, no layer is ever
\* constructed and nothing is returned.
C4_BothNoneRejected ==
    BothNone =>
        /\ n_built = 0
        /\ ~returned
        /\ classifier_sizes = <<>>
        /\ \/ pc = "check_aspect_ratios"
           \/ pc = "error" /\ err = Raise("ValueError", 97)

C4_Witness == BothNone /\ pc = "error" /\ err.kind = "ValueError"

\* C5: a call with a scales list whose length is not 7, or with neither
\* min_scale and max_scale nor scales, returns no model.
C5_BadScalesRejected ==
    (\/ cfg.scales.some /\ Len(cfg.scales.val) # 7
     \/ (~cfg.min_scale.some \/ ~cfg.max_scale.some) /\ ~cfg.scales.some)
    => ~returned

\* C6: a call with a per-layer aspect-ratio list that does not have 6
\* entries returns no model.
C6_BadPerLayerRejected ==
    (cfg.aspect_ratios_per_layer.some /\ Len(cfg.aspect_ratios_per_layer.val) # 6)
    => ~returned

\* C7: once validation has passed without an error, every scaling factor
\* of the scale sequence in use is positive (a sequence holding a value <= 0
\* was rejected during validation).
C7_ScalesPositive ==
    pc \notin ValidationPcs \cup {"error"} =>
        \A j \in 1..Len(scales.val) : scales.val[j] > 0

\* C8: once validation has passed without an error, no classifier layer
\* has an empty aspect-ratio list (an empty list, global or of one layer,
\* was rejected during validation, before any layer is built).
C8_EmptyAspectRatiosRejected ==
    pc \notin ValidationPcs \cup {"error"} =>
        \A i \in Layers : Len(aspect_ratios[i]) > 0

\* C9: once the scales block has passed, the scale sequence has 7 elements,
\* and when it comes from min_scale <= max_scale it is non-decreasing.
C9_ScaleSequence ==
    PassedScales =>
        /\ Len(scales.val) = 7
        /\ (~Truthy(cfg.scales) /\ cfg.min_scale.val <= cfg.max_scale.val) =>
             \A j \in 1..6 : scales.val[j] <= scales.val[j + 1]

C9_Witness ==
    /\ PassedScales
    /\ ~Truthy(cfg.scales)
    /\ cfg.min_scale.val < cfg.max_scale.val
    /\ scales.val[1] = cfg.min_scale.val
    /\ scales.val[1] < scales.val[2]
    /\ scales.val[7] = cfg.max_scale.val

\* the variances argument has not 4 elements or has an element <= 0
BadVariances ==
    \/ Len(cfg.variances) # 4
    \/ \E j \in 1..Len(cfg.variances) : ~(cfg.variances[j] > 0)

\* C10: a call whose variances do not have 4 elements or hold an element
\* <= 0 never constructs a layer: it ends in an error during validation,
\* a configuration error when the variances block is reached; a returned
\* model has exactly 4 variances, all > 0.
C10_VariancesChecked ==
    /\ BadVariances =>
         /\ n_built = 0
         /\ ~returned
         /\ pc \in ValidationPcs \cup {"error"}
         /\ (pc = "error" /\ err.line > 151) =>
              err.kind = "ValueError" /\ err.line \in {154, 157}
    /\ returned =>
         /\ Len(variances) = 4
         /\ \A j \in 1..4 : variances[j] > 0

C10_Witness ==
    /\ Len(cfg.variances) = 4
    /\ \E j \in 1..4 : cfg.variances[j] = 0
    /\ pc = "error"
    /\ err = Raise("ValueError", 157)

\* C12: when a per-layer list of 6 lists is passed, the aspect ratios of
\* layer i are entry i of that list, whatever aspect_ratios_global is; when
\* no per-layer list is passed and a global list is, every layer has the
\* global list and all six layers have the same number of boxes per cell.
C12_Resolution ==
    aspect_ratios # <<>> =>
        /\ (/\ cfg.aspect_ratios_per_layer.some
            /\ Len(cfg.aspect_ratios_per_layer.val) = 6) =>
             \A i \in Layers :
                aspect_ratios[i] = cfg.aspect_ratios_per_layer.val[i]
        /\ (/\ ~cfg.aspect_ratios_per_layer.some
            /\ cfg.aspect_ratios_global.some) =>
             \A i \in Layers :
                /\ aspect_ratios[i] = cfg.aspect_ratios_global.val
                /\ n_boxes[i] = n_boxes[1]

C12_Witness ==
    /\ aspect_ratios # <<>>
    /\ cfg.aspect_ratios_per_layer.some
    /\ Len(cfg.aspect_ratios_per_layer.val) = 6
    /\ cfg.aspect_ratios_global.some
    /\ cfg.aspect_ratios_global.val # <<>>
    /\ \A i \in Layers : cfg.aspect_ratios_global.val # cfg.aspect_ratios_per_layer.val[i]
    /\ aspect_ratios[1] = cfg.aspect_ratios_per_layer.val[1]
    /\ aspect_ratios[2] = cfg.aspect_ratios_per_layer.val[2]
    /\ aspect_ratios[1] # aspect_ratios[2]
    /\ n_boxes[1] # n_boxes[2]

\* the seven scaling factors in use are pairwise different
DistinctScales ==
    \A a, b \in 1..Len(scales.val) : a # b => scales.val[a] # scales.val[b]

\* C13: the AnchorBoxes of layer i (conv4_3, fc7, conv6_2, conv7_2, conv8_2,
\* conv9_2 in this order) is given element i of the scale sequence as
\* this_scale, element i+1 as next_scale and the aspect ratios resolved for
\* layer i; the last element is given only as next_scale of the last layer.
\* (Layers and elements are counted from 1 here.)
C13_AnchorScales ==
    /\ \A i \in 1..Len(anchor_args) :
          /\ anchor_args[i].this_scale = scales.val[i]
          /\ anchor_args[i].next_scale = scales.val[i + 1]
          /\ anchor_args[i].aspect_ratios = aspect_ratios[i]
          /\ DistinctScales =>
               /\ anchor_args[i].this_scale # scales.val[n_classifier_layers + 1]
               /\ i < n_classifier_layers =>
                    anchor_args[i].next_scale # scales.val[n_classifier_layers + 1]
    /\ priorbox_layers # <<>> => Len(anchor_args) = n_classifier_layers

C13_Witness ==
    /\ priorbox_layers # <<>>
    /\ Len(anchor_args) = 6
    /\ DistinctScales
    /\ aspect_ratios[1] # aspect_ratios[2]
    /\ anchor_args[1].this_scale = scales.val[1]
    /\ anchor_args[1].next_scale = scales.val[2]
    /\ anchor_args[6].this_scale = scales.val[6]
    /\ anchor_args[6].next_scale = scales.val[7]
    /\ anchor_args[2].aspect_ratios = aspect_ratios[2]

\* C11: after a forward pass every entry of predictions has n_classes + 12
\* values: first the n_classes softmax scores of the entry's class scores,
\* then its 4 offsets, then its 8 anchor values in the order AnchorBoxes
\* gives them (4 coordinates, then 4 variances).
C11_ColumnLayout ==
    pc = "predicted" =>
        /\ predictions[2] = cfg.n_classes + 12
        /\ Len(out_predictions) = predictions[1]
        /\ \A e \in 1..Len(out_predictions) :
             LET n == cfg.n_classes
             IN  /\ Len(out_predictions[e]) = n + 12
                 /\ \A j \in 1..n :
                      out_predictions[e][j] = <<"softmax", out_conf[e], j - 1>>
                 /\ \A j \in 1..4 :
                      out_predictions[e][n + j] = out_loc[e][j]
                 /\ \A j \in 1..8 :
                      /\ out_predictions[e][n + 4 + j] = out_priorbox[e][j]
                      /\ out_priorbox[e][j][1] = "anchor"
                      /\ out_priorbox[e][j][6] = j - 1

C11_Witness ==
    /\ pc = "predicted"
    /\ cfg.n_classes = 3
    /\ Len(out_predictions) > 1000
    /\ Len(out_predictions[7]) = 15
    /\ out_predictions[7][3] = <<"softmax", out_conf[7], 2>>
    /\ out_predictions[7][4] = out_loc[7][1]
    /\ out_predictions[7][8] = out_priorbox[7][1]
    /\ out_predictions[7][15] = out_priorbox[7][8]

====
